---- MODULE Spec2Model ----
(***************************************************************************)
(* Model of the Kemp Brdy bullet engine (kemp_brdy_engine.py): the opening *)
(* book lookup, the one-ply move evaluator and the selection policy of     *)
(* KempBrdyEngine.get_move, over a model of the chess rules the engine     *)
(* consumes from the chess library (legal moves, push/pop, check, mate,    *)
(* piece lookup, SAN parsing).                                             *)
(*                                                                         *)
(* Scores are kept in tenths of a point so that every weight of            *)
(* tactical_weights (0.6 .. 1.0) is an integer.                            *)
(***************************************************************************)
EXTENDS Integers, Sequences, FiniteSets, TLC

VARIABLES board, difficulty, opening_repertoire, script, cursor, call

vars == <<board, difficulty, opening_repertoire, script, cursor, call>>

-----------------------------------------------------------------------------
(* Squares, pieces and moves as the chess library numbers them: a1 = 0,    *)
(* b1 = 1, ..., h8 = 63.                                                   *)

WHITE == TRUE
BLACK == FALSE

Sq(f, r) == 8 * r + f

square_file(s) == s % 8
square_rank(s) == s \div 8

Squares == 0 .. 63

Abs(x) == IF x < 0 THEN -x ELSE x
Sign(x) == IF x < 0 THEN -1 ELSE IF x > 0 THEN 1 ELSE 0
Max2(x, y) == IF x < y THEN y ELSE x
Min2(x, y) == IF x < y THEN x ELSE y

\* piece_at(square) of an empty square is None
NoPiece == [t |-> "none", c |-> WHITE]
Piece(t, c) == [t |-> t, c |-> c]

\* a Move of the library: origin, destination, optional promotion piece type
Move(f, t) == [from |-> f, to |-> t, promotion |-> "none"]
Promote(f, t, p) == [from |-> f, to |-> t, promotion |-> p]
\* the None that get_move and _get_opening_move return for "no move"
NoMove == [from |-> -1, to |-> -1, promotion |-> "none"]
NoSquare == 0 - 1

piece_at(pieces, s) == IF s \in DOMAIN pieces THEN pieces[s] ELSE NoPiece

-----------------------------------------------------------------------------
(* The rules of chess the engine relies on.  The positions of this model   *)
(* are set up without castling rights, so no castling move is generated;   *)
(* en passant and promotion are.                                           *)

\* every square strictly between s and t (on one line) is empty
RayClear(pieces, s, t) ==
    LET df == Sign(square_file(t) - square_file(s))
        dr == Sign(square_rank(t) - square_rank(s))
        n  == Max2(Abs(square_file(t) - square_file(s)),
                   Abs(square_rank(t) - square_rank(s)))
    IN  \A k \in 1 .. (n - 1) :
            Sq(square_file(s) + k * df, square_rank(s) + k * dr) \notin DOMAIN pieces

\* the piece standing on s attacks square t
Attacks(pieces, s, t) ==
    LET p  == pieces[s]
        df == Abs(square_file(t) - square_file(s))
        dr == Abs(square_rank(t) - square_rank(s))
    IN  /\ s # t
        /\ CASE p.t = "P" -> /\ df = 1
                             /\ square_rank(t) - square_rank(s) = (IF p.c = WHITE THEN 1 ELSE -1)
             [] p.t = "N" -> (df = 1 /\ dr = 2) \/ (df = 2 /\ dr = 1)
             [] p.t = "K" -> df <= 1 /\ dr <= 1
             [] p.t = "B" -> df = dr /\ RayClear(pieces, s, t)
             [] p.t = "R" -> (df = 0 \/ dr = 0) /\ RayClear(pieces, s, t)
             [] p.t = "Q" -> (df = dr \/ df = 0 \/ dr = 0) /\ RayClear(pieces, s, t)
             [] OTHER -> FALSE

is_attacked_by(pieces, color, t) ==
    \E s \in DOMAIN pieces : pieces[s].c = color /\ Attacks(pieces, s, t)

\* the side `color` has its king attacked
InCheck(pieces, color) ==
    \E k \in DOMAIN pieces :
        /\ pieces[k] = Piece("K", color)
        /\ is_attacked_by(pieces, ~color, k)

\* the piece placement after move m (en passant removes the pawn beside the
\* origin square; a promotion replaces the pawn)
ApplyMove(pieces, m) ==
    LET p      == piece_at(pieces, m.from)
        placed == IF m.promotion # "none" THEN Piece(m.promotion, p.c) ELSE p
        isEp   == /\ p.t = "P"
                  /\ square_file(m.from) # square_file(m.to)
                  /\ m.to \notin DOMAIN pieces
        gone   == IF isEp THEN {m.from, Sq(square_file(m.to), square_rank(m.from))}
                  ELSE {m.from}
        dom    == ((DOMAIN pieces) \ gone) \cup {m.to}
    IN  IF m.from \notin DOMAIN pieces THEN pieces
        ELSE [s \in dom |-> IF s = m.to THEN placed ELSE pieces[s]]

\* the squares a piece of type t on s reaches on an empty board
Reach ==
    [t \in {"N", "K", "B", "R", "Q"} |->
        [s \in Squares |->
            {x \in Squares :
                LET df == Abs(square_file(x) - square_file(s))
                    dr == Abs(square_rank(x) - square_rank(s))
                IN  /\ x # s
                    /\ CASE t = "N" -> (df = 1 /\ dr = 2) \/ (df = 2 /\ dr = 1)
                         [] t = "K" -> df <= 1 /\ dr <= 1
                         [] t = "B" -> df = dr
                         [] t = "R" -> df = 0 \/ dr = 0
                         [] OTHER   -> df = dr \/ df = 0 \/ dr = 0}]]

\* destination squares of the pawn on s
PawnTargets(b, s) ==
    LET c     == b.pieces[s].c
        dir   == IF c = WHITE THEN 1 ELSE -1
        home  == IF c = WHITE THEN 1 ELSE 6
        one   == s + 8 * dir
        two   == s + 16 * dir
        takes == {t \in {one - 1, one + 1} \cap Squares :
                     /\ Attacks(b.pieces, s, t)
                     /\ \/ (t \in DOMAIN b.pieces /\ b.pieces[t].c # c)
                        \/ (t = b.ep_square /\ t \notin DOMAIN b.pieces)}
        step1 == IF one \in Squares /\ one \notin DOMAIN b.pieces THEN {one} ELSE {}
        step2 == IF /\ square_rank(s) = home
                    /\ one \notin DOMAIN b.pieces
                    /\ two \notin DOMAIN b.pieces
                 THEN {two} ELSE {}
    IN  takes \cup step1 \cup step2

PieceTargets(b, s) ==
    IF b.pieces[s].t = "P" THEN PawnTargets(b, s)
    ELSE {t \in Reach[b.pieces[s].t][s] :
             /\ Attacks(b.pieces, s, t)
             /\ (t \notin DOMAIN b.pieces \/ b.pieces[t].c # b.pieces[s].c)}

PromotionTypes == {"Q", "R", "B", "N"}

MovesFromTo(b, s, t) ==
    IF b.pieces[s].t = "P" /\ square_rank(t) \in {0, 7}
    THEN {Promote(s, t, p) : p \in PromotionTypes}
    ELSE {Move(s, t)}

pseudo_legal_moves(b) ==
    UNION {UNION {MovesFromTo(b, s, t) : t \in PieceTargets(b, s)} :
              s \in {x \in DOMAIN b.pieces : b.pieces[x].c = b.turn}}

LegalMoveSet(b) ==
    {m \in pseudo_legal_moves(b) : ~InCheck(ApplyMove(b.pieces, m), b.turn)}

\* the library enumerates moves in a fixed order: here by origin,
\* destination, promotion piece
PromotionRank(p) ==
    CASE p = "none" -> 0 [] p = "N" -> 1 [] p = "B" -> 2 [] p = "R" -> 3 [] OTHER -> 4

MoveKey(m) == (m.from * 64 + m.to) * 5 + PromotionRank(m.promotion)

RECURSIVE InOrder(_)
InOrder(S) ==
    IF S = {} THEN <<>>
    ELSE LET first == CHOOSE m \in S : \A o \in S : MoveKey(m) <= MoveKey(o)
         IN  <<first>> \o InOrder(S \ {first})

\* list(board.legal_moves)
legal_moves(b) == InOrder(LegalMoveSet(b))

is_check(b) == InCheck(b.pieces, b.turn)

is_checkmate(b) == is_check(b) /\ LegalMoveSet(b) = {}

\* board.push(move): the position before is kept on the move stack
push(b, m) ==
    LET p == piece_at(b.pieces, m.from)
    IN  [pieces     |-> ApplyMove(b.pieces, m),
         turn       |-> ~b.turn,
         ep_square  |-> IF p.t = "P" /\ Abs(square_rank(m.to) - square_rank(m.from)) = 2
                        THEN Sq(square_file(m.from),
                                (square_rank(m.from) + square_rank(m.to)) \div 2)
                        ELSE NoSquare,
         move_stack |-> Append(b.move_stack,
                               [move |-> m, pieces |-> b.pieces, turn |-> b.turn,
                                ep_square |-> b.ep_square])]

\* board.pop(): the last move is taken back
pop(b) ==
    LET top == b.move_stack[Len(b.move_stack)]
    IN  [pieces     |-> top.pieces,
         turn       |-> top.turn,
         ep_square  |-> top.ep_square,
         move_stack |-> SubSeq(b.move_stack, 1, Len(b.move_stack) - 1)]

\* chess.Board(fen): a position set up with an empty move stack
Board(pieces, turn) ==
    [pieces |-> pieces, turn |-> turn, ep_square |-> NoSquare, move_stack |-> <<>>]

-----------------------------------------------------------------------------
(* SAN tokens of the opening lines.  A token names the piece type, the     *)
(* origin file when the notation gives one (pawn captures), and the        *)
(* destination square.                                                     *)

NoFile == 0 - 1
San(piece, file, to) == [piece |-> piece, file |-> file, to |-> to]

\* the outcome of board.parse_san(token): the move, or the ValueError subclass
\* the library raises (IllegalMoveError, AmbiguousMoveError)
parse_san(b, san) ==
    LET found == {m \in LegalMoveSet(b) :
                     /\ b.pieces[m.from].t = san.piece
                     /\ m.to = san.to
                     /\ m.promotion = "none"
                     /\ IF san.file # NoFile THEN square_file(m.from) = san.file
                        ELSE (san.piece = "P" => square_file(m.from) = square_file(m.to))}
    IN  IF found = {} THEN [error |-> "IllegalMoveError", move |-> NoMove]
        ELSE IF Cardinality(found) > 1 THEN [error |-> "AmbiguousMoveError", move |-> NoMove]
        ELSE [error |-> "none", move |-> CHOOSE m \in found : TRUE]

\* the errors that are subclasses of ValueError
ValueErrors == {"IllegalMoveError", "AmbiguousMoveError", "InvalidMoveError"}

-----------------------------------------------------------------------------
(* KempBrdyEngine.__init__: the opening repertoire and the tactical        *)
(* weights (in tenths).                                                    *)

\* squares named in the opening lines and in _evaluate_move
B1 == Sq(1, 0)
C1 == Sq(2, 0)
E1 == Sq(4, 0)
F1 == Sq(5, 0)
G1 == Sq(6, 0)
B8 == Sq(1, 7)
C8 == Sq(2, 7)
E8 == Sq(4, 7)
F8 == Sq(5, 7)
G8 == Sq(6, 7)
D4 == Sq(3, 3)
E4 == Sq(4, 3)
D5 == Sq(3, 4)
E5 == Sq(4, 4)

San_e3   == San("P", NoFile, Sq(4, 2))
San_e4   == San("P", NoFile, E4)
San_e5   == San("P", NoFile, E5)
San_e6   == San("P", NoFile, Sq(4, 5))
San_g6   == San("P", NoFile, Sq(6, 5))
San_d5   == San("P", NoFile, D5)
San_d6   == San("P", NoFile, Sq(3, 5))
San_d4   == San("P", NoFile, D4)
San_c4   == San("P", NoFile, Sq(2, 3))
San_c5   == San("P", NoFile, Sq(2, 4))
San_c6   == San("P", NoFile, Sq(2, 5))
San_exd5 == San("P", 4, D5)
San_cxd5 == San("P", 2, D5)
San_cxd4 == San("P", 2, D4)
San_Bc4  == San("B", NoFile, Sq(2, 3))
San_Bb3  == San("B", NoFile, Sq(1, 2))
San_Bg7  == San("B", NoFile, Sq(6, 6))
San_Nc6  == San("N", NoFile, Sq(2, 5))
San_Nf3  == San("N", NoFile, Sq(5, 2))
San_Nf6  == San("N", NoFile, Sq(5, 5))
San_Qf3  == San("Q", NoFile, Sq(5, 2))
San_Qxd5 == San("Q", NoFile, D5)
San_Ke7  == San("K", NoFile, Sq(4, 6))
San_Kh7  == San("K", NoFile, Sq(7, 6))

\* self.opening_repertoire as __init__ sets it
ReferenceRepertoire ==
    [white |-> << <<San_e3, San_e5, San_Bc4, San_Nc6, San_Qf3, San_Nf6>>,
                  <<San_e4, San_e6, San_Nf3, San_d5, San_exd5, San_Qxd5>>,
                  <<San_e3, San_e5, San_Bc4, San_d5, San_Bb3, San_Nf6>>,
                  <<San_e3, San_g6, San_Bc4, San_Bg7, San_Qf3, San_e6>>,
                  <<San_e3, San_d5, San_c4, San_e6, San_cxd5, San_exd5>> >>,
     black |-> << <<San_e4, San_e6, San_Nf3, San_d5, San_exd5, San_Qxd5>>,
                  <<San_e4, San_c5, San_Nf3, San_d6, San_d4, San_cxd4>>,
                  <<San_e4, San_c6, San_d4, San_d5, San_exd5, San_cxd5>> >>]

\* a repertoire a caller has put in place of it, with lines that run past
\* the sixth ply
LongRepertoire ==
    [white |-> << <<San_e3, San_e5, San_Bc4, San_Nc6, San_Qf3, San_Nf6,
                    San_Ke7, San_Ke7, San_Ke7, San_Ke7>>,
                  <<San_e3, San_d5, San_c4, San_e6, San_cxd5, San_exd5>> >>,
     black |-> << <<San_e4, San_c6, San_d4, San_d5, San_exd5, San_cxd5,
                    San_Kh7, San_Kh7, San_Kh7, San_Kh7>> >>]

\* self.tactical_weights, in tenths; a key that is absent has weight 0 here
\* and HasWeight tells the two apart
tactical_weights ==
    [check |-> 8, checkmate |-> 10, capture_queen |-> 9, capture_bishop |-> 7,
     capture_knight |-> 7, castling |-> 6, development |-> 8,
     center_control |-> 7, aggression |-> 9]

\* difficulty_level: int = 5
DefaultDifficulty == 5

Difficulties == 1 .. 10

-----------------------------------------------------------------------------
(* KempBrdyEngine._get_opening_move                                        *)

Return(m) == [status |-> "return", move |-> m, error |-> "none"]
Raise(e)  == [status |-> "raise", move |-> NoMove, error |-> e]

\* the guard as it would be one ply late
PastBookOnePlyLate(move_count) == move_count > 7

\* `if move_count > 6: return None`
PastBook(move_count) == move_count > 6

\* the except clause as it would be if it named AmbiguousMoveError alone
CatchesAmbiguousOnly(e) == e = "AmbiguousMoveError"

\* `except ValueError:` catches the error e
CatchesValueError(e) == e \in ValueErrors

\* the lookup once random.choice(openings) has drawn `line`
_get_opening_move(b, line) ==
    LET move_count == Len(b.move_stack)
    IN  IF PastBook(move_count) THEN Return(NoMove)
        ELSE IF move_count < Len(line)
             THEN LET parsed == parse_san(b, line[move_count + 1])
                  IN  IF parsed.error = "none" THEN Return(parsed.move)
                      ELSE IF CatchesValueError(parsed.error) THEN Return(NoMove)
                      ELSE Raise(parsed.error)
             ELSE Return(NoMove)

\* openings = self.opening_repertoire['white' | 'black']
Openings(rep, b) == IF b.turn = WHITE THEN rep.white ELSE rep.black

-----------------------------------------------------------------------------
(* KempBrdyEngine._evaluate_move and its helpers                           *)

_get_piece_value(piece) ==
    CASE piece.t = "P" -> 1
      [] piece.t = "N" -> 3
      [] piece.t = "B" -> 3
      [] piece.t = "R" -> 5
      [] piece.t = "Q" -> 9
      [] piece.t = "K" -> 0
      [] OTHER -> 0

_get_piece_type(piece) ==
    CASE piece.t = "P" -> "capture_pawn"
      [] piece.t = "N" -> "capture_knight"
      [] piece.t = "B" -> "capture_bishop"
      [] piece.t = "R" -> "capture_rook"
      [] piece.t = "Q" -> "capture_queen"
      [] piece.t = "K" -> "capture_king"
      [] OTHER -> "capture_pawn"

\* `capture_type in self.tactical_weights`
HasWeight(name) == name \in DOMAIN tactical_weights

\* called with the board on which the move has already been pushed
_is_development_move(b, move) ==
    LET piece == piece_at(b.pieces, move.from)
    IN  IF piece = NoPiece THEN FALSE
        ELSE /\ piece.t \in {"N", "B"}
             /\ \/ (piece.c = WHITE /\ move.from \in {B1, C1, F1, G1})
                \/ (piece.c = BLACK /\ move.from \in {B8, C8, F8, G8})

_controls_center(square) == square \in {D4, E4, D5, E5}

\* called with the board on which the move has already been pushed
_is_aggressive_move(b, move) ==
    IF b.turn = WHITE
    THEN square_rank(move.to) > square_rank(move.from)
    ELSE square_rank(move.to) < square_rank(move.from)

RECURSIVE MaterialSum(_, _)
MaterialSum(pieces, S) ==
    IF S = {} THEN 0
    ELSE LET s == CHOOSE x \in S : TRUE
             v == _get_piece_value(pieces[s])
         IN  (IF pieces[s].c = WHITE THEN v ELSE -v) + MaterialSum(pieces, S \ {s})

_evaluate_material(b) == MaterialSum(b.pieces, DOMAIN b.pieces)

\* in tenths: 10 when not in check, 0.5 per legal move
_evaluate_position(b) ==
    (IF ~is_check(b) THEN 100 ELSE 0) + 5 * Cardinality(LegalMoveSet(b))

\* the checkmate score as it would be if it were weighted like the check
\* bonus (weight x 50)
MateScoreAsCheckBonus == tactical_weights.checkmate * 50

\* `return 1000.0 + self.tactical_weights['checkmate'] * 100`, in tenths
MateScore == 10000 + tactical_weights.checkmate * 100

\* the capture term of lines 154-162, read on the board after the push
CaptureTerm(pushed, move) ==
    LET captured_piece == piece_at(pushed.pieces, move.to)
        capture_value  == _get_piece_value(captured_piece)
        capture_type   == _get_piece_type(captured_piece)
    IN  IF captured_piece # NoPiece
        THEN IF HasWeight(capture_type)
             THEN tactical_weights[capture_type] * capture_value * 10
             ELSE capture_value * 50
        ELSE 0

DevelopmentTerm(pushed, move) ==
    IF _is_development_move(pushed, move) THEN tactical_weights.development * 15 ELSE 0

AggressionTerm(pushed, move) ==
    IF _is_aggressive_move(pushed, move) THEN tactical_weights.aggression * 12 ELSE 0

QueenTerm(pushed, move) ==
    IF /\ piece_at(pushed.pieces, move.from) # NoPiece
       /\ piece_at(pushed.pieces, move.from).t = "Q"
    THEN 80 + (IF _controls_center(move.to) THEN 50 ELSE 0)
    ELSE 0

\* the exit as it would be without the finally clause: the move stays pushed
finally_skipped(pushed) == pushed

\* `finally: board.pop()`
finally_pop(pushed) == pop(pushed)

\* lines 139-193: the push, the try block and the finally.  `fault` says
\* that a call made inside the try block raises.
EvaluateCore(b, move, fault) ==
    LET pushed == push(b, move)
        none   == [board |-> finally_pop(pushed), move |-> move, exit |-> "raised",
                   score |-> 0, check |-> 0, capture |-> 0, development |-> 0,
                   center |-> 0, castling |-> 0, aggression |-> 0, queen |-> 0,
                   material |-> 0, position |-> 0, noise |-> 0]
    IN  IF fault THEN none
        ELSE IF is_checkmate(pushed)
        THEN [none EXCEPT !.exit = "mate", !.score = MateScore]
        ELSE LET check       == IF is_check(pushed) THEN tactical_weights.check * 50 ELSE 0
                 capture     == CaptureTerm(pushed, move)
                 development == DevelopmentTerm(pushed, move)
                 center      == IF _controls_center(move.to)
                                THEN tactical_weights.center_control * 10 ELSE 0
                 castling    == IF /\ move.from \in {E1, E8}
                                   /\ move.to \in {G1, C1, G8, C8}
                                THEN tactical_weights.castling * 20 ELSE 0
                 aggression  == AggressionTerm(pushed, move)
                 queen       == QueenTerm(pushed, move)
                 material    == 10 * _evaluate_material(pushed)
                 position    == _evaluate_position(pushed)
             IN  [none EXCEPT !.exit = "normal",
                              !.score = check + capture + development + center + castling
                                        + aggression + queen + material + position,
                              !.check = check, !.capture = capture,
                              !.development = development, !.center = center,
                              !.castling = castling, !.aggression = aggression,
                              !.queen = queen, !.material = material,
                              !.position = position]

\* lines 195-198: `score += random.uniform(-5, 5) * (11 - self.difficulty)`,
\* u the draw in tenths; the two early exits never reach it
AddNoise(core, u, d) ==
    IF core.exit = "normal"
    THEN [core EXCEPT !.score = @ + u * (11 - d), !.noise = u * (11 - d)]
    ELSE core

_evaluate_move(b, move, u, d, fault) == AddNoise(EvaluateCore(b, move, fault), u, d)

-----------------------------------------------------------------------------
(* KempBrdyEngine.get_move                                                 *)

\* the draws of random.uniform(-5, 5) the model follows, in tenths
NoiseUnits == {-50, 0, 50}

\* in one call of get_move at most this many moves draw a perturbation that
\* differs from the one the other moves draw
MaxOutliers == 1

RECURSIVE NoiseVectorsFrom(_, _, _)
NoiseVectorsFrom(n, k, base) ==
    IF n = 0 THEN {<<>>}
    ELSE {Append(v, base) : v \in NoiseVectorsFrom(n - 1, k, base)}
         \cup (IF k = 0 THEN {}
               ELSE UNION {{Append(v, u) : v \in NoiseVectorsFrom(n - 1, k - 1, base)} :
                              u \in NoiseUnits \ {base}})

NoiseVectors(n) == UNION {NoiseVectorsFrom(n, MaxOutliers, base) : base \in NoiseUnits}

\* random.shuffle is followed through the orders that lie within this many
\* exchanges of two elements from the order it was given
MaxSwaps == 1

Swap(p, i, j) == [p EXCEPT ![i] = p[j], ![j] = p[i]]

RECURSIVE OrdersWithin(_, _)
OrdersWithin(k, n) ==
    IF n = 0 THEN {[i \in 1 .. k |-> i]}
    ELSE LET nearer == OrdersWithin(k, n - 1)
         IN  nearer \cup {Swap(p, i, j) : p \in nearer, i \in 1 .. k, j \in 1 .. k}

\* the orders of k elements that are followed
ShuffleOrders == [k \in 1 .. 5 |-> OrdersWithin(k, MaxSwaps)]

\* lines 85-88: every legal move is evaluated in turn.  Each evaluation
\* hands the board back as core.board, and the next one starts from it.
RECURSIVE ScoreAll(_, _, _)
ScoreAll(b, legal, i) ==
    IF i > Len(legal) THEN <<>>
    ELSE <<EvaluateCore(b, legal[i], FALSE)>> \o ScoreAll(b, legal, i + 1)

\* the board the evaluations leave behind
BoardAfter(b, cores) == IF cores = <<>> THEN b ELSE cores[Len(cores)].board

\* scored_moves with the perturbations v drawn
RECURSIVE Scored(_, _, _, _)
Scored(cores, v, d, i) ==
    IF i > Len(cores) THEN <<>>
    ELSE LET r == AddNoise(cores[i], v[i], d)
         IN  <<[score |-> r.score, move |-> r.move]>> \o Scored(cores, v, d, i + 1)

\* scored_moves.sort(reverse=True, key=lambda x: x[0]): descending and stable
RECURSIVE InsertDescending(_, _)
InsertDescending(sorted, x) ==
    IF sorted = <<>> THEN <<x>>
    ELSE IF Head(sorted).score >= x.score
         THEN <<Head(sorted)>> \o InsertDescending(Tail(sorted), x)
         ELSE <<x>> \o sorted

RECURSIVE SortDescending(_, _)
SortDescending(scored, i) ==
    IF i = 0 THEN <<>>
    ELSE InsertDescending(SortDescending(scored, i - 1), scored[i])

\* the guard as it would be with the threshold of _add_randomness
RandomizeBelowNine(d) == d < 9

\* `if self.difficulty < 7:`
RandomizeGuard(d) == d < 7

\* _add_randomness, with p the order random.shuffle leaves the top moves in
_add_randomness(scored_moves, p, d) ==
    IF d >= 9 THEN scored_moves
    ELSE LET k         == Min2(5, Len(scored_moves))
             top_moves == [i \in 1 .. k |-> scored_moves[p[i]]]
         IN  IF Len(scored_moves) > 5
             THEN top_moves \o SubSeq(scored_moves, 6, Len(scored_moves))
             ELSE top_moves

\* random.shuffle ran in this call
Shuffles(d) == RandomizeGuard(d) /\ ~(d >= 9)

\* the fallback as it would be if it drew from the moves generated before the
\* king-safety filter
FallbackFromPseudoLegal(b) == pseudo_legal_moves(b)

\* `return random.choice(legal_moves)`: what the fallback draws from
FallbackMoves(b) == LegalMoveSet(b)

\* the record of a call: which operation ran, how it ended, what it
\* returned, and for get_move whether that was the head of the sorted ranking
NoCall ==
    [op |-> "none", path |-> "none", ret |-> NoMove, book |-> NoMove,
     top |-> FALSE, shuffled |-> FALSE, eval |-> <<>>, after |-> <<>>,
     before |-> <<>>]

\* lines 78-106, once the opening book has returned none
SelectOutcomes(b, d) ==
    LET legal    == legal_moves(b)
        cores    == ScoreAll(b, legal, 1)
        after    == BoardAfter(b, cores)
        rankings == {SortDescending(Scored(cores, v, d, 1), Len(legal)) :
                        v \in NoiseVectors(Len(legal))}
        orders   == ShuffleOrders[Min2(5, Len(legal))]
        \* <<best_move, head of the sorted ranking>>; lines 94-99
        picks    == UNION {IF RandomizeGuard(d)
                           THEN {<<Head(_add_randomness(r, p, d)).move, Head(r).move>> :
                                    p \in orders}
                           ELSE {<<Head(r).move, Head(r).move>>} :
                           r \in rankings}
        best     == {[NoCall EXCEPT !.op = "get_move", !.path = "best",
                                    !.ret = x[1], !.top = (x[1] = x[2]),
                                    !.shuffled = Shuffles(d),
                                    !.after = after] :
                        x \in picks}
        fallback == {[NoCall EXCEPT !.op = "get_move", !.path = "fallback", !.ret = m,
                                    !.after = after] :
                        m \in FallbackMoves(b)}
    IN  IF legal = <<>>
        THEN {[NoCall EXCEPT !.op = "get_move", !.path = "no_moves", !.after = b]}
        ELSE best \cup fallback

\* what _get_opening_move can return on b, over the draws of random.choice
BookOutcomes(rep, b) ==
    {_get_opening_move(b, Openings(rep, b)[i]) : i \in 1 .. Len(Openings(rep, b))}

\* get_move(board): every way the call can end; `after` is the board the call
\* leaves behind
get_move(rep, b, d) ==
    UNION {IF opening.status = "raise"
           THEN {[NoCall EXCEPT !.op = "get_move", !.path = "raised", !.after = b]}
           ELSE IF opening.move # NoMove
           THEN {[NoCall EXCEPT !.op = "get_move", !.path = "book",
                                !.ret = opening.move, !.book = opening.move,
                                !.after = b]}
           ELSE SelectOutcomes(b, d) :
           opening \in BookOutcomes(rep, b)}

-----------------------------------------------------------------------------
(* The callers.  A game record is replayed on a board set up from one of   *)
(* its positions (setups counts the moves already played there), and the   *)
(* engine is called on the positions on the way.                           *)

\* a king and pawn ending: 1.Ke6 Kg8 2.Ke7 Kh8 3.Kf8 h6 4.g7+ Kh7 5.g8=Q#
PawnEnding ==
    [pieces |-> (Sq(3, 5) :> Piece("K", WHITE)) @@ (Sq(6, 5) :> Piece("P", WHITE))
                @@ (Sq(7, 7) :> Piece("K", BLACK)) @@ (Sq(7, 6) :> Piece("P", BLACK)),
     turn   |-> WHITE,
     moves  |-> <<Move(Sq(3, 5), Sq(4, 5)), Move(Sq(7, 7), Sq(6, 7)),
                  Move(Sq(4, 5), Sq(4, 6)), Move(Sq(6, 7), Sq(7, 7)),
                  Move(Sq(4, 6), Sq(5, 7)), Move(Sq(7, 6), Sq(7, 5)),
                  Move(Sq(6, 5), Sq(6, 6)), Move(Sq(7, 7), Sq(7, 6)),
                  Promote(Sq(6, 6), Sq(6, 7), "Q")>>,
     setups |-> {0, 8, 9}]

\* a cut-down opening: 1.e3 c6 2.c4 d5 3.cxd5 cxd5
MiniOpening ==
    [pieces |-> (E1 :> Piece("K", WHITE)) @@ (F1 :> Piece("B", WHITE))
                @@ (Sq(2, 1) :> Piece("P", WHITE)) @@ (Sq(4, 1) :> Piece("P", WHITE))
                @@ (E8 :> Piece("K", BLACK)) @@ (G8 :> Piece("N", BLACK))
                @@ (Sq(2, 6) :> Piece("P", BLACK)) @@ (Sq(3, 6) :> Piece("P", BLACK)),
     turn   |-> WHITE,
     moves  |-> <<Move(Sq(4, 1), Sq(4, 2)), Move(Sq(2, 6), Sq(2, 5)),
                  Move(Sq(2, 1), Sq(2, 3)), Move(Sq(3, 6), Sq(3, 4)),
                  Move(Sq(2, 3), Sq(3, 4)), Move(Sq(2, 5), Sq(3, 4))>>,
     setups |-> {0, 1}]

\* a stalemate: 1.Kf6 Kh8 2.Kf7
Stalemate ==
    [pieces |-> (Sq(4, 5) :> Piece("K", WHITE)) @@ (Sq(6, 5) :> Piece("P", WHITE))
                @@ (Sq(6, 7) :> Piece("K", BLACK)),
     turn   |-> WHITE,
     moves  |-> <<Move(Sq(4, 5), Sq(5, 5)), Move(Sq(6, 7), Sq(7, 7)),
                  Move(Sq(5, 5), Sq(5, 6))>>,
     setups |-> {0, 3}]

Scripts == <<PawnEnding, MiniOpening, Stalemate>>

\* the position of script s after its first n moves
RECURSIVE PositionAfter(_, _)
PositionAfter(s, n) ==
    IF n = 0 THEN Board(Scripts[s].pieces, Scripts[s].turn)
    ELSE push(PositionAfter(s, n - 1), Scripts[s].moves[n])

\* chess.Board(fen) of that position: the same position with no history
SetUp(s, n) == [PositionAfter(s, n) EXCEPT !.move_stack = <<>>]

Init ==
    /\ script \in 1 .. Len(Scripts)
    /\ cursor \in Scripts[script].setups
    /\ board = SetUp(script, cursor)
    /\ \/ (opening_repertoire = ReferenceRepertoire /\ difficulty \in Difficulties)
       \/ (opening_repertoire = LongRepertoire /\ difficulty = DefaultDifficulty)
    /\ call = NoCall

\* the caller plays the next move of the game record: board.push(move)
Replay ==
    /\ cursor < Len(Scripts[script].moves)
    /\ board' = push(board, Scripts[script].moves[cursor + 1])
    /\ cursor' = cursor + 1
    /\ call' = NoCall
    /\ UNCHANGED <<difficulty, opening_repertoire, script>>

\* move = engine.get_move(board)
GetMove ==
    /\ call.op = "none"
    /\ \E o \in get_move(opening_repertoire, board, difficulty) :
           /\ board' = o.after
           /\ call' = [o EXCEPT !.after = <<>>]
    /\ UNCHANGED <<difficulty, opening_repertoire, script, cursor>>

\* score = engine._evaluate_move(board, move) for a legal move of the board;
\* _evaluate_move(board, move, u, difficulty, fault) is AddNoise of
\* EvaluateCore
EvaluateMove ==
    /\ call.op = "none"
    /\ \E move \in LegalMoveSet(board), fault \in BOOLEAN :
           LET core == EvaluateCore(board, move, fault)
           IN  \E u \in NoiseUnits :
                   LET r == AddNoise(core, u, difficulty)
                   IN  /\ board' = r.board
                       /\ call' = [NoCall EXCEPT !.op = "_evaluate_move",
                                                 !.path = r.exit,
                                                 !.eval = [r EXCEPT !.board = <<>>],
                                                 !.before = board]
    /\ UNCHANGED <<difficulty, opening_repertoire, script, cursor>>

Next == Replay \/ GetMove \/ EvaluateMove

Spec == Init /\ [][Next]_vars

-----------------------------------------------------------------------------
(* Properties.  A call leaves its record in `call`; the board it ran on is *)
(* `board`, and for _evaluate_move also call.before.                       *)

GetMoveCalled == call.op = "get_move"
Evaluated     == call.op = "_evaluate_move"
Ply           == Len(board.move_stack)

\* the legal moves of the board that give checkmate
MatingMoves == {m \in LegalMoveSet(board) : is_checkmate(push(board, m))}

\* C1: when the position has a legal move, get_move returns one of the
\* position's legal moves, whether it comes from the opening book, from the
\* head of the ranking or from the random fallback.
C1_ReturnsLegalMove ==
    GetMoveCalled
        => LET legal == LegalMoveSet(board)
           IN  legal # {} => /\ call.path \in {"book", "best", "fallback"}
                             /\ call.ret \in legal

C1_Witness ==
    /\ GetMoveCalled
    /\ call.path = "fallback"
    /\ call.ret \in LegalMoveSet(board)
    /\ pseudo_legal_moves(board) # LegalMoveSet(board)

\* C2: on a position without legal moves get_move returns none and raises
\* nothing, also while the opening book is still consulted (ply 0..6).
C2_NoMovesReturnsNone ==
    (GetMoveCalled /\ LegalMoveSet(board) = {})
        => (call.path = "no_moves" /\ call.ret = NoMove)

C2_Witness ==
    /\ GetMoveCalled
    /\ LegalMoveSet(board) = {}
    /\ Ply \in 0 .. 6
    /\ call.path = "no_moves"

\* C3: _evaluate_move leaves the board as it found it (position and move
\* stack), on the normal return, on the checkmate return and when a call
\* inside the try block raises.
C3_EvaluateRestoresBoard == Evaluated => board = call.before

C3_Witness == Evaluated /\ call.path = "mate" /\ board = call.before

\* C4: with the perturbation at zero, a move that does not mate scores
\* strictly less than every legal move of the same position that mates.
C4_MateDominates ==
    (Evaluated /\ call.path = "normal" /\ call.eval.noise = 0)
        => \A m \in MatingMoves :
               _evaluate_move(board, m, 0, difficulty, FALSE).score > call.eval.score

C4_Witness ==
    /\ Evaluated
    /\ call.path = "normal"
    /\ call.eval.noise = 0
    /\ call.eval.check > 0
    /\ MatingMoves # {}

\* C5 as claimed: whenever a legal move mates, the move get_move returns
\* mates, at every difficulty.
C5_AlwaysMates ==
    (GetMoveCalled /\ MatingMoves # {}) => call.ret \in MatingMoves

\* C5 as amended: when a legal move mates, the opening book returned none,
\* the time budget was not exceeded and the difficulty is one at which
\* get_move leaves the ranking unshuffled (7..10), the returned move mates.
C5_MatesWhenUnshuffled ==
    (GetMoveCalled /\ call.path = "best" /\ difficulty >= 7)
        => LET mates == MatingMoves
           IN  mates # {} => call.ret \in mates

C5_Witness ==
    /\ GetMoveCalled
    /\ call.path = "best"
    /\ difficulty = 7
    /\ call.ret \in MatingMoves
    /\ MatingMoves # LegalMoveSet(board)

\* C6: from ply 7 on the opening book returns none, whatever lines the
\* repertoire holds, and get_move goes on to enumeration and scoring.
C6_NoBookFromPlySeven ==
    (GetMoveCalled /\ Ply >= 7) => call.path \in {"no_moves", "best", "fallback"}

C6_Witness ==
    /\ GetMoveCalled
    /\ Ply >= 7
    /\ opening_repertoire = LongRepertoire
    /\ call.path = "best"
    /\ \E i \in 1 .. Len(Openings(opening_repertoire, board)) :
           LET line == Openings(opening_repertoire, board)[i]
           IN  Ply < Len(line) /\ parse_san(board, line[Ply + 1]).error = "none"

\* C7 as claimed: when the ranking decides, it is shuffled exactly when
\* difficulty < 9, and at difficulty 9 and 10 the top-ranked move is returned.
C7_ShuffledBelowNine ==
    (GetMoveCalled /\ call.path = "best")
        => /\ call.shuffled <=> (difficulty < 9)
           /\ (difficulty >= 9 => call.top)

\* the capture term the claim C8 describes: nothing for a move to an empty
\* square, the captured piece's value and weight otherwise
ClaimedCaptureTerm(before, move) ==
    LET taken == piece_at(before.pieces, move.to)
    IN  IF taken # NoPiece /\ taken.c # before.turn
        THEN IF HasWeight(_get_piece_type(taken))
             THEN tactical_weights[_get_piece_type(taken)] * _get_piece_value(taken) * 10
             ELSE _get_piece_value(taken) * 50
        ELSE 0

\* C8 as claimed: the capture term is added exactly when an opposing piece
\* stood on the destination square, and is computed from that piece.
C8_CaptureTermOfCapturedPiece ==
    (Evaluated /\ call.path = "normal")
        => call.eval.capture = ClaimedCaptureTerm(call.before, call.eval.move)

\* C9 as claimed: development_weight x 15 is added exactly for a knight or
\* bishop that leaves its initial back-rank square.
C9_DevelopmentBonus ==
    (Evaluated /\ call.path = "normal")
        => LET piece == piece_at(call.before.pieces, call.eval.move.from)
               develops == /\ piece.t \in {"N", "B"}
                           /\ \/ (piece.c = WHITE /\ call.eval.move.from \in {B1, C1, F1, G1})
                              \/ (piece.c = BLACK /\ call.eval.move.from \in {B8, C8, F8, G8})
           IN  call.eval.development
                   = (IF develops THEN tactical_weights.development * 15 ELSE 0)

\* C10 as claimed: aggression_weight x 12 is added exactly when the move
\* goes up the board for White, down the board for Black.
C10_AggressionBonus ==
    (Evaluated /\ call.path = "normal")
        => LET move == call.eval.move
               advances == IF call.before.turn = WHITE
                           THEN square_rank(move.to) > square_rank(move.from)
                           ELSE square_rank(move.to) < square_rank(move.from)
           IN  call.eval.aggression
                   = (IF advances THEN tactical_weights.aggression * 12 ELSE 0)

====
